---- MODULE Spec2Model ----
(***************************************************************************)
(* Model of app.py: the Flask handlers submit_assessment and               *)
(* recommend_career, the module-level fallback catalog                     *)
(* DUMMY_CAREER_PATHS, and the Firestore collections they read and write.  *)
(*                                                                         *)
(* Python dicts are functions from keys to values (an absent key is a key  *)
(* outside the DOMAIN), Python lists are sequences.  A handler is one      *)
(* action; the outcome of every Firestore call it makes (result or         *)
(* exception) is an input of the action.                                   *)
(***************************************************************************)
EXTENDS Integers, Sequences, FiniteSets, Bags, TLC

VARIABLES
  db,                  \* TRUE iff Firebase initialisation gave a client (app.py:16-48)
  DUMMY_CAREER_PATHS,  \* the module-level list of dicts (app.py:68-84), shared by all requests
  career_paths,        \* documents of the Firestore collection 'career_paths'
  assessments,         \* documents of the Firestore collection 'assessments', in commit order
  server_time,         \* the value firestore.SERVER_TIMESTAMP resolves to at the next commit
  last,                \* the handler run that completed last: its request, locals and response
  users,               \* documents of the Firestore collection 'users', in commit order
  uuids,               \* how many ids uuid.uuid4() has produced
  registering          \* for every request thread, where its run of register() stands

vars == <<db, DUMMY_CAREER_PATHS, career_paths, assessments, server_time, last,
          users, uuids, registering>>

----------------------------------------------------------------------------
(* Bounds *)

\* at most this many documents in the 'assessments' collection
MaxAssessments == 2

\* at most this many calls of uuid.uuid4(), hence documents in 'users'
MaxUsers == 3

\* the request threads that may run register() at the same time
MaxRequests == 2

----------------------------------------------------------------------------
(* Data *)

\* app.py:68-84, the value the module-level list has after import
DummyCareerPathsSource ==
  <<
    [id |-> "cp1", name |-> "Software Engineer",
     description |-> "Develops software applications, focusing on logic and problem-solving.",
     skills_needed |-> <<"Python", "Java", "Algorithms", "Problem Solving">>,
     average_salary_usd |-> 120000,
     interests |-> <<"Math", "Science", "Problem Solving">>,
     work_environment |-> <<"Independent", "Collaborative">>,
     impact_areas |-> <<"Innovate and create new technologies", "Analyze data and solve complex problems">>],
    [id |-> "cp2", name |-> "Data Scientist",
     description |-> "Analyzes large datasets to extract insights and build predictive models.",
     skills_needed |-> <<"Statistics", "Machine Learning", "SQL", "Python/R">>,
     average_salary_usd |-> 135000,
     interests |-> <<"Math", "Science", "Problem Solving">>,
     work_environment |-> <<"Independent", "Collaborative">>,
     impact_areas |-> <<"Analyze data and solve complex problems", "Innovate and create new technologies">>],
    [id |-> "cp3", name |-> "UI/UX Designer",
     description |-> "Designs user interfaces and experiences, focusing on creativity and user empathy.",
     skills_needed |-> <<"Figma", "User Research", "Prototyping", "Creativity">>,
     average_salary_usd |-> 110000,
     interests |-> <<"Arts", "Creative">>,
     work_environment |-> <<"Collaborative", "Dynamic">>,
     impact_areas |-> <<"Express creativity and design", "Help people and improve communities">>],
    [id |-> "cp4", name |-> "Digital Marketing Specialist",
     description |-> "Plans and executes digital marketing campaigns, requiring creativity and social interaction.",
     skills_needed |-> <<"SEO", "Content Marketing", "Social Media", "Analytics">>,
     average_salary_usd |-> 75000,
     interests |-> <<"Arts", "Social">>,
     work_environment |-> <<"Dynamic", "Collaborative">>,
     impact_areas |-> <<"Express creativity and design", "Lead and manage projects/teams">>],
    [id |-> "cp5", name |-> "Financial Analyst",
     description |-> "Evaluates financial data and advises on investments, requiring strong analytical skills.",
     skills_needed |-> <<"Excel", "Financial Modeling", "Economics", "Attention to Detail">>,
     average_salary_usd |-> 90000,
     interests |-> <<"Math", "Problem Solving">>,
     work_environment |-> <<"Independent", "Collaborative">>,
     impact_areas |-> <<"Analyze data and solve complex problems">>],
    [id |-> "cp6", name |-> "Biomedical Researcher",
     description |-> "Conducts scientific research to develop new medical treatments and technologies.",
     skills_needed |-> <<"Biology", "Chemistry", "Research Methods", "Lab Skills">>,
     average_salary_usd |-> 100000,
     interests |-> <<"Science", "Problem Solving">>,
     work_environment |-> <<"Independent", "Collaborative">>,
     impact_areas |-> <<"Innovate and create new technologies", "Help people and improve communities">>],
    [id |-> "cp7", name |-> "Content Writer",
     description |-> "Creates engaging written content for various platforms, demanding creativity and strong communication.",
     skills_needed |-> <<"Writing", "Editing", "Research", "Creativity">>,
     average_salary_usd |-> 60000,
     interests |-> <<"Arts", "Creative">>,
     work_environment |-> <<"Independent", "Dynamic">>,
     impact_areas |-> <<"Express creativity and design">>],
    [id |-> "cp8", name |-> "Social Worker",
     description |-> "Helps individuals and families cope with challenges, requiring strong social and empathetic skills.",
     skills_needed |-> <<"Empathy", "Communication", "Problem Solving", "Crisis Intervention">>,
     average_salary_usd |-> 55000,
     interests |-> <<"Social">>,
     work_environment |-> <<"Dynamic", "Collaborative">>,
     impact_areas |-> <<"Help people and improve communities">>],
    [id |-> "cp9", name |-> "Environmental Scientist",
     description |-> "Investigates environmental problems and develops solutions for conservation and sustainability.",
     skills_needed |-> <<"Ecology", "Chemistry", "Data Analysis", "Fieldwork">>,
     average_salary_usd |-> 80000,
     interests |-> <<"Science", "Problem Solving">>,
     work_environment |-> <<"Independent", "Dynamic">>,
     impact_areas |-> <<"Analyze data and solve complex problems", "Help people and improve communities">>],
    [id |-> "cp10", name |-> "Game Developer",
     description |-> "Designs and programs video games, blending technical skills with creative vision.",
     skills_needed |-> <<"Programming (C++/C#)", "Game Design", "Graphics", "Problem Solving", "Creativity">>,
     average_salary_usd |-> 95000,
     interests |-> <<"Math", "Science", "Creative", "Problem Solving">>,
     work_environment |-> <<"Collaborative", "Dynamic">>,
     impact_areas |-> <<"Innovate and create new technologies", "Express creativity and design">>],
    [id |-> "cp11", name |-> "Architect",
     description |-> "Plans and designs buildings and other structures, combining artistic vision with engineering principles.",
     skills_needed |-> <<"Drafting", "Design Software (CAD)", "Problem Solving", "Creativity", "Physics">>,
     average_salary_usd |-> 90000,
     interests |-> <<"Arts", "Math", "Problem Solving", "Creative">>,
     work_environment |-> <<"Independent", "Collaborative">>,
     impact_areas |-> <<"Express creativity and design", "Innovate and create new technologies">>],
    [id |-> "cp12", name |-> "Journalist",
     description |-> "Researches, writes, and reports news stories, requiring strong communication and social skills.",
     skills_needed |-> <<"Writing", "Research", "Interviewing", "Communication", "Social">>,
     average_salary_usd |-> 50000,
     interests |-> <<"Arts", "Social">>,
     work_environment |-> <<"Dynamic", "Independent">>,
     impact_areas |-> <<"Help people and improve communities">>],
    [id |-> "cp13", name |-> "Mechanical Engineer",
     description |-> "Designs, develops, builds, and tests mechanical devices and systems.",
     skills_needed |-> <<"Physics", "Math", "CAD", "Problem Solving", "Design">>,
     average_salary_usd |-> 98000,
     interests |-> <<"Science", "Math", "Problem Solving">>,
     work_environment |-> <<"Independent", "Collaborative">>,
     impact_areas |-> <<"Innovate and create new technologies", "Analyze data and solve complex problems">>],
    [id |-> "cp14", name |-> "Graphic Designer",
     description |-> "Creates visual concepts using computer software or by hand, to communicate ideas that inspire, inform, or captivate consumers.",
     skills_needed |-> <<"Adobe Creative Suite", "Typography", "Color Theory", "Creativity">>,
     average_salary_usd |-> 65000,
     interests |-> <<"Arts", "Creative">>,
     work_environment |-> <<"Independent", "Collaborative">>,
     impact_areas |-> <<"Express creativity and design">>],
    [id |-> "cp15", name |-> "Teacher",
     description |-> "Educates students in various subjects, requiring strong communication and social skills.",
     skills_needed |-> <<"Communication", "Patience", "Subject Matter Expertise", "Social">>,
     average_salary_usd |-> 60000,
     interests |-> <<"Social">>,
     work_environment |-> <<"Collaborative", "Dynamic">>,
     impact_areas |-> <<"Help people and improve communities", "Lead and manage projects/teams">>]
  >>

\* A 'career_paths' collection as an operator of the database may have filled
\* it: documents (document id, fields) in the order career_paths_ref.get()
\* returns them.  Optional fields are missing from some documents, one has no
\* 'id' field, and two share a salary.
SampleCareerPaths ==
  <<
    [doc_id |-> "docA",
     data |-> [id |-> "fs1", name |-> "Nurse",
               average_salary_usd |-> 70000,
               interests |-> <<"Science", "Social">>,
               work_environment |-> <<"Collaborative", "Dynamic">>,
               impact_areas |-> <<"Help people and improve communities">>]],
    [doc_id |-> "docB",
     data |-> [name |-> "Translator",
               interests |-> <<"Arts">>,
               work_environment |-> <<"Independent">>]],
    [doc_id |-> "docC",
     data |-> [id |-> "fs3", name |-> "Statistician",
               average_salary_usd |-> 70000,
               interests |-> <<"Math", "Problem Solving">>]],
    [doc_id |-> "docD",
     data |-> [id |-> "fs4", name |-> "Actuary",
               average_salary_usd |-> 110000,
               interests |-> <<"Math", "Problem Solving">>,
               work_environment |-> <<"Independent">>,
               impact_areas |-> <<"Analyze data and solve complex problems">>]]
  >>

\* the contents the 'career_paths' collection may have
CareerPathsContents == { <<>>, SampleCareerPaths }

required_questions == <<"q1", "q2", "q3", "q4", "q5", "q6">>

\* a dict literal {q1: a, ..., q6: f}
Answers(a, b, c, d, e, f) ==
  [q \in {"q1", "q2", "q3", "q4", "q5", "q6"} |->
     CASE q = "q1" -> a [] q = "q2" -> b [] q = "q3" -> c
       [] q = "q4" -> d [] q = "q5" -> e [] OTHER -> f]

\* the dict d without the keys in ks
Without(d, ks) == [k \in (DOMAIN d) \ ks |-> d[k]]

EmptyDict == [k \in {} |-> ""]

AnalystAnswers ==
  Answers("Math", "Problem Solving", "Independent", "Yes", "Hands-on",
          "Analyze data and solve complex problems")

ArtistAnswers ==
  Answers("Arts", "Creative", "Collaborative", "No", "Structured",
          "Express creativity and design")

\* answers that match nothing in several profiles of either catalog
OffCatalogAnswers ==
  Answers("History", "Outdoors", "Remote", "Yes", "Structured", "Other")

\* the user_id values of request bodies and query strings; a request may
\* also lack the key
UserIds == { "", "u1", "u2" }

\* JSON bodies of POST /submit-assessment: every complete submission of a
\* user, and bodies that lack a key, a question or an answer
SubmitBodies ==
  { [user_id |-> "u1", answers |-> a] :
      a \in {AnalystAnswers, ArtistAnswers, OffCatalogAnswers} } \cup
  { [user_id |-> "u2", answers |-> a] :
      a \in {ArtistAnswers, OffCatalogAnswers} } \cup
  { EmptyDict,
    [user_id |-> "u1"],
    [answers |-> AnalystAnswers],
    [user_id |-> "", answers |-> AnalystAnswers],
    [user_id |-> "u1", answers |-> EmptyDict],
    [user_id |-> "u1", answers |-> Without(AnalystAnswers, {"q6"})],
    [user_id |-> "u2", answers |-> [ArtistAnswers EXCEPT !["q3"] = ""]] }

\* query strings of GET /recommend-career
RecommendArgs == { EmptyDict } \cup { [user_id |-> u] : u \in UserIds }

\* what a Firestore call does: return, or raise
Outcomes == { "ok", "error" }

\* the answers of assessment documents that were not written through
\* /submit-assessment (which validates them): any subset of the questions,
\* each with a value that matches some profile, one that matches none, or ''
Absent == "<absent>"

Q1Values == { "Math", "Cooking", "" }
Q2Values == { "Creative" }
Q3Values == { "Independent" }
Q4Values == { "Yes", "No", "Maybe" }
Q5Values == { "Hands-on", "Structured" }
Q6Values == { "Analyze data and solve complex problems", "Other" }

PartialAnswers(a, b, c, d, e, f) ==
  LET all == Answers(a, b, c, d, e, f)
  IN  Without(all, { q \in DOMAIN all : all[q] = Absent })

StoredAnswerSets ==
  { PartialAnswers(a, b, c, d, e, f) :
      a \in Q1Values \cup {Absent}, b \in Q2Values \cup {Absent},
      c \in Q3Values \cup {Absent}, d \in Q4Values \cup {Absent},
      e \in Q5Values \cup {Absent}, f \in Q6Values \cup {Absent} }

----------------------------------------------------------------------------
(* Python idioms *)

\* x in list
In(x, list) == \E i \in 1..Len(list) : list[i] = x

\* d.get(k, default)
Get(d, k, default) == IF k \in DOMAIN d THEN d[k] ELSE default

\* bool(d.get(k)) for a string-valued entry: present and not ''
Truthy(d, k) == k \in DOMAIN d /\ d[k] # ""

\* d.get(k) == v, for a string v
GetEquals(d, k, v) == k \in DOMAIN d /\ d[k] = v

\* {"score": score}: the profile's own fields are not copied
WithScoreOnly(rec, score) == [k \in {"score"} |-> score]

\* {**rec, "score": score}
WithScore(rec, score) ==
  [k \in (DOMAIN rec) \cup {"score"} |-> IF k = "score" THEN score ELSE rec[k]]

\* as InsertReverse, but pair goes before the pairs with an equal key
RECURSIVE InsertReverseTiesFirst(_, _)
InsertReverseTiesFirst(sorted, pair) ==
  IF sorted = <<>> THEN <<pair>>
  ELSE IF Head(sorted).key > pair.key
    THEN <<Head(sorted)>> \o InsertReverseTiesFirst(Tail(sorted), pair)
    ELSE <<pair>> \o sorted

\* the sorted list 'sorted' (of [key, item] pairs, descending by key) with
\* pair inserted after every pair whose key is not smaller
RECURSIVE InsertReverse(_, _)
InsertReverse(sorted, pair) ==
  IF sorted = <<>> THEN <<pair>>
  ELSE IF Head(sorted).key >= pair.key
    THEN <<Head(sorted)>> \o InsertReverse(Tail(sorted), pair)
    ELSE <<pair>> \o sorted

RECURSIVE SortPairsReverse(_, _)
SortPairsReverse(pairs, n) ==
  IF n = 0 THEN <<>>
  ELSE InsertReverse(SortPairsReverse(pairs, n - 1), pairs[n])

RECURSIVE Zip(_, _, _)
Zip(list, keys, i) ==
  IF i > Len(list) THEN <<>>
  ELSE <<[key |-> keys[i], item |-> list[i]]>> \o Zip(list, keys, i + 1)

RECURSIVE Items(_)
Items(pairs) ==
  IF pairs = <<>> THEN <<>> ELSE <<Head(pairs).item>> \o Items(Tail(pairs))

\* sorted(list, key=..., reverse=True) and list.sort(key=..., reverse=True):
\* keys[i] is the key of list[i].  The sort is stable, and reverse=True keeps
\* the original order of elements with equal keys.
SortReverse(list, keys) ==
  LET pairs == Zip(list, keys, 1)
  IN  Items(SortPairsReverse(pairs, Len(pairs)))

----------------------------------------------------------------------------
(* Firestore queries *)

\* career_paths_ref.get() followed by the loop of app.py:219-223: the fields
\* of every document, with the document id as 'id' where the field is missing
FetchCareerPaths(docs) ==
  [i \in 1..Len(docs) |->
     IF "id" \in DOMAIN docs[i].data
       THEN docs[i].data
       ELSE [k \in (DOMAIN docs[i].data) \cup {"id"} |->
               IF k = "id" THEN docs[i].doc_id ELSE docs[i].data[k]]]

\* .where('user_id', '==', user_id)
WhereUserId(docs, user_id) ==
  LET matches(d) == d.user_id = user_id
  IN  SelectSeq(docs, matches)

\* .order_by('submitted_at'): ascending, the default direction
OrderBySubmittedAtAscending(docs) ==
  SortReverse(docs, [i \in 1..Len(docs) |-> 0 - docs[i].submitted_at])

\* .order_by('submitted_at', direction=firestore.Query.DESCENDING)
OrderBySubmittedAt(docs) ==
  SortReverse(docs, [i \in 1..Len(docs) |-> docs[i].submitted_at])

\* .limit(1)
Limit1(docs) == IF Len(docs) = 0 THEN <<>> ELSE <<docs[1]>>

\* latest_assessment_query.get()
LatestAssessmentQuery(docs, user_id) ==
  Limit1(OrderBySubmittedAt(WhereUserId(docs, user_id)))

----------------------------------------------------------------------------
(* submit_assessment *)

\* all(q in answers for q in required_questions)
AllAnsweredPresentOnly(answers) ==
  \A i \in 1..Len(required_questions) : required_questions[i] \in DOMAIN answers

\* all(q in answers and answers[q] for q in required_questions)
AllAnswered(answers) ==
  \A i \in 1..Len(required_questions) : Truthy(answers, required_questions[i])

\* not (not user_id or not answers)
HasUserIdAndAnswers(data) ==
  /\ Truthy(data, "user_id")
  /\ "answers" \in DOMAIN data
  /\ DOMAIN data.answers # {}

NoRun ==
  [route |-> "", status |-> 0, request |-> EmptyDict, user_id |-> "",
   recommendations |-> <<>>, user_answers |-> EmptyDict, source |-> "",
   catalog_fetch |-> "", assessment_fetch |-> ""]

SubmitRun(data, status) ==
  [NoRun EXCEPT !.route = "submit_assessment", !.status = status,
                !.request = data]

\* POST /submit-assessment with JSON body data; add is what
\* assessments_ref.add does
submit_assessment(data, add) ==
  /\ IF ~db
       THEN /\ last' = SubmitRun(data, 500)
            /\ UNCHANGED <<assessments, server_time>>
     ELSE IF ~HasUserIdAndAnswers(data)
       THEN /\ last' = SubmitRun(data, 400)
            /\ UNCHANGED <<assessments, server_time>>
     ELSE IF ~AllAnswered(data.answers)
       THEN /\ last' = SubmitRun(data, 400)
            /\ UNCHANGED <<assessments, server_time>>
     ELSE IF add = "error"
       THEN /\ last' = SubmitRun(data, 500)
            /\ UNCHANGED <<assessments, server_time>>
     ELSE /\ Len(assessments) < MaxAssessments
          /\ assessments' = Append(assessments,
                                   [user_id |-> data.user_id,
                                    answers |-> data.answers,
                                    submitted_at |-> server_time])
          /\ server_time' = server_time + 1
          /\ last' = SubmitRun(data, 201)
  /\ UNCHANGED <<db, DUMMY_CAREER_PATHS, career_paths, users, uuids, registering>>

SubmitAssessment ==
  \E data \in SubmitBodies, add \in Outcomes : submit_assessment(data, add)

----------------------------------------------------------------------------
(* recommend_career *)

\* as Score, but the q4 = 'No' rule tests 'Problem Solving' in interests
ScoreNoRuleInverted(rec, user_answers) ==
  LET interests == Get(rec, "interests", <<>>)
      work_environment == Get(rec, "work_environment", <<>>)
      impact_areas == Get(rec, "impact_areas", <<>>)
      s0 == 0
      s1 == IF Truthy(user_answers, "q1") /\ In(user_answers["q1"], interests)
              THEN s0 + 3 ELSE s0
      s2 == IF Truthy(user_answers, "q2") /\ In(user_answers["q2"], interests)
              THEN s1 + 3 ELSE s1
      s3 == IF Truthy(user_answers, "q3") /\ In(user_answers["q3"], work_environment)
              THEN s2 + 2 ELSE s2
      s4 == IF GetEquals(user_answers, "q4", "Yes") /\ In("Problem Solving", interests)
              THEN s3 + 4
            ELSE IF GetEquals(user_answers, "q4", "No") /\ In("Problem Solving", interests)
              THEN s3 + 1
            ELSE s3
      s5 == IF GetEquals(user_answers, "q5", "Hands-on")
                 /\ (In("Independent", work_environment) \/ In("Dynamic", work_environment))
              THEN s4 + 3
            ELSE IF GetEquals(user_answers, "q5", "Structured")
                 /\ In("Collaborative", work_environment)
              THEN s4 + 2
            ELSE s4
      s6 == IF Truthy(user_answers, "q6") /\ In(user_answers["q6"], impact_areas)
              THEN s5 + 5 ELSE s5
  IN  IF s6 = 0 THEN 1 ELSE s6

\* as Score, without the base score of app.py:286-287
ScoreNoFloor(rec, user_answers) ==
  LET interests == Get(rec, "interests", <<>>)
      work_environment == Get(rec, "work_environment", <<>>)
      impact_areas == Get(rec, "impact_areas", <<>>)
      s0 == 0
      s1 == IF Truthy(user_answers, "q1") /\ In(user_answers["q1"], interests)
              THEN s0 + 3 ELSE s0
      s2 == IF Truthy(user_answers, "q2") /\ In(user_answers["q2"], interests)
              THEN s1 + 3 ELSE s1
      s3 == IF Truthy(user_answers, "q3") /\ In(user_answers["q3"], work_environment)
              THEN s2 + 2 ELSE s2
      s4 == IF GetEquals(user_answers, "q4", "Yes") /\ In("Problem Solving", interests)
              THEN s3 + 4
            ELSE IF GetEquals(user_answers, "q4", "No") /\ ~In("Problem Solving", interests)
              THEN s3 + 1
            ELSE s3
      s5 == IF GetEquals(user_answers, "q5", "Hands-on")
                 /\ (In("Independent", work_environment) \/ In("Dynamic", work_environment))
              THEN s4 + 3
            ELSE IF GetEquals(user_answers, "q5", "Structured")
                 /\ In("Collaborative", work_environment)
              THEN s4 + 2
            ELSE s4
      s6 == IF Truthy(user_answers, "q6") /\ In(user_answers["q6"], impact_areas)
              THEN s5 + 5 ELSE s5
  IN  s6

\* the loop body of app.py:255-287: the score of one profile
Score(rec, user_answers) ==
  LET interests == Get(rec, "interests", <<>>)
      work_environment == Get(rec, "work_environment", <<>>)
      impact_areas == Get(rec, "impact_areas", <<>>)
      s0 == 0
      s1 == IF Truthy(user_answers, "q1") /\ In(user_answers["q1"], interests)
              THEN s0 + 3 ELSE s0
      s2 == IF Truthy(user_answers, "q2") /\ In(user_answers["q2"], interests)
              THEN s1 + 3 ELSE s1
      s3 == IF Truthy(user_answers, "q3") /\ In(user_answers["q3"], work_environment)
              THEN s2 + 2 ELSE s2
      s4 == IF GetEquals(user_answers, "q4", "Yes") /\ In("Problem Solving", interests)
              THEN s3 + 4
            ELSE IF GetEquals(user_answers, "q4", "No") /\ ~In("Problem Solving", interests)
              THEN s3 + 1
            ELSE s3
      s5 == IF GetEquals(user_answers, "q5", "Hands-on")
                 /\ (In("Independent", work_environment) \/ In("Dynamic", work_environment))
              THEN s4 + 3
            ELSE IF GetEquals(user_answers, "q5", "Structured")
                 /\ In("Collaborative", work_environment)
              THEN s4 + 2
            ELSE s4
      s6 == IF Truthy(user_answers, "q6") /\ In(user_answers["q6"], impact_areas)
              THEN s5 + 5 ELSE s5
  IN  IF s6 = 0 THEN 1 ELSE s6

\* rec['score'] = score; scored_recommendations.append(rec): the catalog
\* dict itself is annotated and put on the output list
AppendScoredInPlace(rec, score) ==
  [appended |-> WithScore(rec, score), rec |-> WithScore(rec, score)]

\* app.py:289, scored_recommendations.append({**rec, "score": score}):
\* 'appended' is the new dict put on the output list, 'rec' is the catalog
\* dict after the statement
AppendScored(rec, score) ==
  [appended |-> WithScore(rec, score), rec |-> rec]

\* app.py:300-301, in place: if 'score' not in rec: rec['score'] = 0
SetDefaultScore(rec) ==
  IF "score" \in DOMAIN rec THEN rec ELSE WithScore(rec, 0)

\* key=lambda x: -x.get('average_salary_usd', 0)
SalaryKeyAscending(rec) == 0 - Get(rec, "average_salary_usd", 0)

\* app.py:298, the sort key of the general recommendations
SalaryKey(rec) == Get(rec, "average_salary_usd", 0)

\* the for loop of app.py:254-289 from index i on: for every profile the new
\* dict appended to scored_recommendations and the catalog dict afterwards
RECURSIVE ScoringLoop(_, _, _)
ScoringLoop(all_career_paths, user_answers, i) ==
  IF i > Len(all_career_paths) THEN <<>>
  ELSE <<AppendScored(all_career_paths[i],
                      Score(all_career_paths[i], user_answers))>>
       \o ScoringLoop(all_career_paths, user_answers, i + 1)

\* app.py:292-294 after the loop left 'pairs': the sorted
\* scored_recommendations, and the dicts of all_career_paths
RankScored(pairs) ==
  LET n == Len(pairs) IN
  [recommendations |->
     SortReverse([i \in 1..n |-> pairs[i].appended],
                 [i \in 1..n |-> pairs[i].appended.score]),
   all_career_paths |-> [i \in 1..n |-> pairs[i].rec]]

\* app.py:298-303: the general recommendations sorted by salary, every dict
\* given a default score in place; the dicts are those of all_career_paths
RankGeneral(all_career_paths) ==
  LET n == Len(all_career_paths)
      general_recommendations ==
        SortReverse(all_career_paths,
                    [i \in 1..n |-> SalaryKey(all_career_paths[i])])
  IN  [recommendations |->
         [i \in 1..n |-> SetDefaultScore(general_recommendations[i])],
       all_career_paths |->
         [i \in 1..n |-> SetDefaultScore(all_career_paths[i])]]

\* app.py:251-303 on the list all_career_paths: the response's
\* recommendations and the dicts of all_career_paths after the request
ScoreAndRank(all_career_paths, user_answers) ==
  IF DOMAIN user_answers # {}
    THEN RankScored(ScoringLoop(all_career_paths, user_answers, 1))
    ELSE RankGeneral(all_career_paths)

\* app.py:236-249: the answers the request is scored with
UserAnswers(user_id, assessment_fetch) ==
  IF user_id # "" /\ assessment_fetch = "ok"
    THEN LET user_assessments == LatestAssessmentQuery(assessments, user_id)
         IN  IF Len(user_assessments) > 0
               THEN Get(user_assessments[1], "answers", EmptyDict)
               ELSE EmptyDict
    ELSE EmptyDict

\* as CatalogSource, but a failed fetch does not switch to the fallback
CatalogSourceNoFallback(catalog_fetch) ==
  IF Len(career_paths) > 0 THEN "firestore" ELSE "DUMMY_CAREER_PATHS"

\* app.py:215-233: "firestore" when the fetch returned documents, else the
\* fallback
CatalogSource(catalog_fetch) ==
  IF catalog_fetch = "ok" /\ Len(career_paths) > 0
    THEN "firestore" ELSE "DUMMY_CAREER_PATHS"

\* app.py:215-233: the list all_career_paths
AllCareerPaths(source) ==
  IF source = "firestore" THEN FetchCareerPaths(career_paths)
                          ELSE DUMMY_CAREER_PATHS

\* app.py:294 and 303: the response, and the effect on the fallback catalog
\* when all_career_paths is that list
Reply(args, catalog_fetch, assessment_fetch, source, user_answers, result) ==
  /\ last' = [route |-> "recommend_career", status |-> 200,
              request |-> args,
              user_id |-> IF DOMAIN user_answers = {} /\ ~Truthy(args, "user_id")
                            THEN "guest" ELSE args.user_id,
              recommendations |-> result.recommendations,
              user_answers |-> user_answers,
              source |-> source,
              catalog_fetch |-> catalog_fetch,
              assessment_fetch |-> assessment_fetch]
  /\ DUMMY_CAREER_PATHS' =
       IF source = "firestore" THEN DUMMY_CAREER_PATHS
                               ELSE result.all_career_paths

\* app.py:214-303 once both reads are done
Serve(args, catalog_fetch, assessment_fetch, source, user_answers) ==
  Reply(args, catalog_fetch, assessment_fetch, source, user_answers,
        ScoreAndRank(AllCareerPaths(source), user_answers))

\* GET /recommend-career with query string args; catalog_fetch and
\* assessment_fetch are what the two Firestore reads do
recommend_career(args, catalog_fetch, assessment_fetch) ==
  /\ IF ~db
       THEN /\ last' = [NoRun EXCEPT !.route = "recommend_career",
                                     !.status = 500, !.request = args]
            /\ UNCHANGED DUMMY_CAREER_PATHS
       ELSE Serve(args, catalog_fetch, assessment_fetch,
                  CatalogSource(catalog_fetch),
                  UserAnswers(Get(args, "user_id", ""), assessment_fetch))
  /\ UNCHANGED <<db, career_paths, assessments, server_time, users, uuids,
                 registering>>

\* the assessments are read only if user_id (app.py:237)
AssessmentFetchOutcomes(args) ==
  IF Truthy(args, "user_id") THEN Outcomes ELSE { "" }

RecommendCareer ==
  \E args \in RecommendArgs, catalog_fetch \in Outcomes :
    \E assessment_fetch \in AssessmentFetchOutcomes(args) :
       recommend_career(args, catalog_fetch, assessment_fetch)

----------------------------------------------------------------------------
(* register *)

\* Emails and passwords are sequences of characters.
AliceEmail == <<"a", "@", "x", ".", "y">>
BobEmail == <<"b", "@", "x", ".", "y">>
NoAtEmail == <<"a", ".", "y">>
GoodPassword == <<"s", "e", "c", "r", "e", "t">>
ShortPassword == <<"a", "b", "c">>

\* JSON bodies of POST /register: two addresses with a valid password, and
\* bodies that lack a key or fail a validation
RegisterBodies ==
  { [email |-> AliceEmail, password |-> GoodPassword],
    [email |-> BobEmail, password |-> GoodPassword],
    EmptyDict,
    [email |-> AliceEmail],
    [email |-> <<>>, password |-> GoodPassword],
    [email |-> NoAtEmail, password |-> GoodPassword],
    [email |-> BobEmail, password |-> ShortPassword] }

\* the values of uuid.uuid4(), in the order they are produced; no two are
\* equal
UuidValues == <<"uuid-1", "uuid-2", "uuid-3", "uuid-4", "uuid-5", "uuid-6">>

\* app.py:52-54: the SHA256 digest, kept symbolic (equal passwords give
\* equal digests, different passwords different ones)
hash_password(password) == [sha256 |-> password]

\* app.py:56-58: re.match(r"[^@]+@[^@]+\.[^@]+", email), a match at the
\* start of the string: a characters other than '@', an '@', characters
\* other than '@' up to position b, a '.', and one more character other
\* than '@'
is_valid_email(email) ==
  \E a, b \in 1..Len(email) :
    /\ a + 2 <= b
    /\ b + 2 <= Len(email)
    /\ \A k \in 1..a : email[k] # "@"
    /\ email[a + 1] = "@"
    /\ \A k \in (a + 2)..b : email[k] # "@"
    /\ email[b + 1] = "."
    /\ email[b + 2] # "@"

\* bool(data.get(k)) for a sequence-valued entry: present and not empty
TruthyText(data, k) == k \in DOMAIN data /\ Len(data[k]) > 0

\* app.py:115, users_ref.where('email', '==', email).limit(1).get()
ExistingUsers(email) ==
  LET matches(d) == d.email = email
  IN  Limit1(SelectSeq(users, matches))

Threads == 1..MaxRequests

Idle == [pc |-> "idle", data |-> EmptyDict]

RegisterRun(data, status, user_id) ==
  [NoRun EXCEPT !.route = "register", !.status = status, !.request = data,
                !.user_id = user_id]

\* POST /register with JSON body data on request thread r, app.py:100-117:
\* the validations and the query for an existing user; read is what the
\* query does.  The run ends here with 500, 400 or 409, or goes on to
\* register_store with the email found unused.
register_check(r, data, read) ==
  /\ registering[r].pc = "idle"
  /\ IF ~db
       THEN /\ last' = RegisterRun(data, 500, "")
            /\ UNCHANGED registering
     ELSE IF ~TruthyText(data, "email") \/ ~TruthyText(data, "password")
       THEN /\ last' = RegisterRun(data, 400, "")
            /\ UNCHANGED registering
     ELSE IF ~is_valid_email(data.email)
       THEN /\ last' = RegisterRun(data, 400, "")
            /\ UNCHANGED registering
     ELSE IF Len(data.password) < 6
       THEN /\ last' = RegisterRun(data, 400, "")
            /\ UNCHANGED registering
     ELSE IF read = "error"
       THEN /\ last' = RegisterRun(data, 500, "")
            /\ UNCHANGED registering
     ELSE IF Len(ExistingUsers(data.email)) > 0
       THEN /\ last' = RegisterRun(data, 409, "")
            /\ UNCHANGED registering
     ELSE /\ registering' = [registering EXCEPT ![r] = [pc |-> "checked",
                                                        data |-> data]]
          /\ UNCHANGED last
  /\ UNCHANGED <<db, DUMMY_CAREER_PATHS, career_paths, assessments,
                 server_time, users, uuids>>

\* app.py:119-133 on request thread r: the new user document is written
\* under a fresh id; set is what users_ref.document(user_id).set does
register_store(r, set) ==
  /\ registering[r].pc = "checked"
  /\ uuids < MaxUsers
  /\ LET data == registering[r].data
         user_id == UuidValues[uuids + 1]
     IN  /\ uuids' = uuids + 1
         /\ IF set = "error"
              THEN /\ last' = RegisterRun(data, 500, "")
                   /\ UNCHANGED <<users, server_time>>
              ELSE /\ users' = Append(users,
                                      [user_id |-> user_id,
                                       email |-> data.email,
                                       password_hash |-> hash_password(data.password),
                                       created_at |-> server_time])
                   /\ server_time' = server_time + 1
                   /\ last' = RegisterRun(data, 201, user_id)
  /\ registering' = [registering EXCEPT ![r] = Idle]
  /\ UNCHANGED <<db, DUMMY_CAREER_PATHS, career_paths, assessments>>

RegisterCheck ==
  \E r \in Threads, data \in RegisterBodies, read \in Outcomes :
    register_check(r, data, read)

RegisterStore ==
  \E r \in Threads, set \in Outcomes : register_store(r, set)

----------------------------------------------------------------------------
(* The service *)

Init ==
  /\ db \in BOOLEAN
  /\ DUMMY_CAREER_PATHS = DummyCareerPathsSource
  /\ career_paths \in CareerPathsContents
  /\ assessments = <<>>
  /\ server_time = 1
  /\ last = NoRun
  /\ users = <<>>
  /\ uuids = 0
  /\ registering = [r \in Threads |-> Idle]

Next == SubmitAssessment \/ RecommendCareer

Spec == Init /\ [][Next]_vars

\* The scorer on its own: the database holds one assessment of user u1 with
\* any of StoredAnswerSets, and only /recommend-career is requested.
InitScore ==
  /\ db = TRUE
  /\ DUMMY_CAREER_PATHS = DummyCareerPathsSource
  /\ career_paths \in CareerPathsContents
  /\ \E a \in StoredAnswerSets :
       assessments = <<[user_id |-> "u1", answers |-> a, submitted_at |-> 1]>>
  /\ server_time = 2
  /\ last = NoRun
  /\ users = <<>>
  /\ uuids = 0
  /\ registering = [r \in Threads |-> Idle]

NextScore == RecommendCareer

SpecScore == InitScore /\ [][NextScore]_vars

\* Registration on its own: register() reads and writes only the 'users'
\* collection, which no other handler modelled here touches.  Requests run
\* on concurrent threads, so the query of one run and the write of another
\* may come in either order.
InitRegister ==
  /\ db \in BOOLEAN
  /\ DUMMY_CAREER_PATHS = DummyCareerPathsSource
  /\ career_paths = <<>>
  /\ assessments = <<>>
  /\ server_time = 1
  /\ last = NoRun
  /\ users = <<>>
  /\ uuids = 0
  /\ registering = [r \in Threads |-> Idle]

NextRegister == RegisterCheck \/ RegisterStore

SpecRegister == InitRegister /\ [][NextRegister]_vars

----------------------------------------------------------------------------
(* Properties *)

recommendations == last.recommendations

\* the last request was a /recommend-career that answered 200
Served == last.route = "recommend_career" /\ last.status = 200

\* ... and it was scored with a non-empty answer set
Scored == Served /\ DOMAIN last.user_answers # {}

\* ... and it was not scored
Unscored == Served /\ DOMAIN last.user_answers = {}

Elems(list) == { list[i] : i \in 1..Len(list) }

\* the answer to question q as a set: empty when absent or ''
Answered(a, q) == IF q \in DOMAIN a THEN {a[q]} \ {""} ELSE {}

\* the points of the rules of the scoring table that fire for profile r
RulePoints(r, a) ==
  LET interests == IF "interests" \in DOMAIN r THEN Elems(r.interests) ELSE {}
      work_environment ==
        IF "work_environment" \in DOMAIN r THEN Elems(r.work_environment) ELSE {}
      impact_areas ==
        IF "impact_areas" \in DOMAIN r THEN Elems(r.impact_areas) ELSE {}
      q1 == IF Answered(a, "q1") \cap interests # {} THEN 3 ELSE 0
      q2 == IF Answered(a, "q2") \cap interests # {} THEN 3 ELSE 0
      q3 == IF Answered(a, "q3") \cap work_environment # {} THEN 2 ELSE 0
      q4yes == IF Answered(a, "q4") = {"Yes"} /\ "Problem Solving" \in interests
                 THEN 4 ELSE 0
      q4no == IF Answered(a, "q4") = {"No"} /\ "Problem Solving" \notin interests
                THEN 1 ELSE 0
      q5hands == IF Answered(a, "q5") = {"Hands-on"}
                    /\ {"Independent", "Dynamic"} \cap work_environment # {}
                   THEN 3 ELSE 0
      q5struct == IF Answered(a, "q5") = {"Structured"}
                     /\ "Collaborative" \in work_environment
                    THEN 2 ELSE 0
      q6 == IF Answered(a, "q6") \cap impact_areas # {} THEN 5 ELSE 0
  IN  q1 + q2 + q3 + q4yes + q4no + q5hands + q5struct + q6

\* C1: with a non-empty answer set, the score of every returned profile is
\* the sum of the points of the rules that fire for it, a sum of 0 replaced
\* by 1; absent and unrecognized answers and absent profile fields add
\* nothing.
C1_ScoreIsSumOfRules ==
  Scored =>
    \A i \in 1..Len(recommendations) :
      LET points == RulePoints(recommendations[i], last.user_answers)
      IN  recommendations[i].score = IF points = 0 THEN 1 ELSE points

\* a partial answer set (q1, q3, q6 only) gave a profile 3 + 2 + 5 = 10
C1_Witness ==
  /\ Scored
  /\ DOMAIN last.user_answers = {"q1", "q3", "q6"}
  /\ \E i \in 1..Len(recommendations) :
       /\ recommendations[i].score = 10
       /\ RulePoints(recommendations[i], last.user_answers) = 10

\* C2 as stated: every returned profile has score >= 1, for the empty answer
\* set too.
C2_ScoreFloorAllAnswerSets ==
  Served => \A i \in 1..Len(recommendations) : recommendations[i].score >= 1

\* C2, amended: with a non-empty answer set every returned profile has
\* score >= 1.
C2_ScoreFloor ==
  Scored => \A i \in 1..Len(recommendations) : recommendations[i].score >= 1

\* a profile for which no rule fired was returned with score 1
C2_Witness ==
  /\ Scored
  /\ \E i \in 1..Len(recommendations) :
       /\ RulePoints(recommendations[i], last.user_answers) = 0
       /\ recommendations[i].score = 1

\* the catalog the last request read, as it was before any request
PristineCatalog ==
  IF last.source = "firestore" THEN FetchCareerPaths(career_paths)
                               ELSE DummyCareerPathsSource

\* the position in the catalog of the profile with this id
Position(id) ==
  CHOOSE p \in 1..Len(PristineCatalog) : PristineCatalog[p].id = id

\* C3: with a non-empty answer set the recommendations are in non-increasing
\* score order, and profiles with equal scores keep their catalog order.
C3_SortedStable ==
  Scored =>
    \A i, j \in 1..Len(recommendations) :
      i < j =>
        /\ recommendations[i].score >= recommendations[j].score
        /\ recommendations[i].score = recommendations[j].score
             => Position(recommendations[i].id) < Position(recommendations[j].id)

\* a scored response with a tie, in which the sort moved a profile forward
C3_Witness ==
  /\ Scored
  /\ \E i, j \in 1..Len(recommendations) :
       i < j /\ recommendations[i].score = recommendations[j].score
  /\ \E i, j \in 1..Len(recommendations) :
       /\ i < j
       /\ recommendations[i].score > recommendations[j].score
       /\ Position(recommendations[i].id) > Position(recommendations[j].id)

\* C4: the fallback catalog is never mutated: every profile keeps exactly
\* the fields and values it had, and no catalog profile carries a score.
C4_CatalogNeverMutated ==
  /\ DUMMY_CAREER_PATHS = DummyCareerPathsSource
  /\ \A i \in 1..Len(DUMMY_CAREER_PATHS) : "score" \notin DOMAIN DUMMY_CAREER_PATHS[i]

\* the bag of the elements of list
BagOf(list) ==
  [x \in Elems(list) |-> Cardinality({ i \in 1..Len(list) : list[i] = x })]

Unannotated(list) == [i \in 1..Len(list) |-> Without(list[i], {"score"})]

\* C5: the recommendations have the length of the catalog and contain each
\* catalog profile exactly once, annotated with a score.
C5_LengthAndContentPreserved ==
  Served =>
    /\ Len(recommendations) = Len(PristineCatalog)
    /\ BagOf(Unannotated(recommendations)) = BagOf(PristineCatalog)
    /\ \A i \in 1..Len(recommendations) : "score" \in DOMAIN recommendations[i]

\* all 15 fallback profiles were returned, in another order than the catalog's
C5_Witness ==
  /\ Served
  /\ Len(recommendations) = 15
  /\ recommendations[1].id # PristineCatalog[1].id

\* the salary of a returned profile, a missing one counting as 0
Salary(r) == IF "average_salary_usd" \in DOMAIN r THEN r.average_salary_usd ELSE 0

\* C6: with an empty answer set every returned profile has score 0 and the
\* profiles are in descending salary order.
C6_UnscoredBySalary ==
  Unscored =>
    /\ \A i \in 1..Len(recommendations) : recommendations[i].score = 0
    /\ \A i, j \in 1..Len(recommendations) :
         i < j => Salary(recommendations[i]) >= Salary(recommendations[j])

\* the assessment fetch failed for a user who has an assessment, and the
\* Firestore catalog (one profile has no salary) came back by salary
C6_Witness ==
  /\ Unscored
  /\ last.assessment_fetch = "error"
  /\ \E i \in 1..Len(assessments) : assessments[i].user_id = last.request.user_id
  /\ last.source = "firestore"
  /\ \E i \in 1..Len(recommendations) :
       "average_salary_usd" \notin DOMAIN recommendations[i]
  /\ Salary(recommendations[1]) > Salary(recommendations[2])

\* C7: the recommendations depend only on the catalog contents and the
\* answers: whatever was served before, they are what the request returns
\* on the untouched catalog.
C7_Deterministic ==
  Served =>
    recommendations = ScoreAndRank(PristineCatalog, last.user_answers).recommendations

\* a scored response from the fallback catalog, served after a guest request
\* had gone through that catalog
C7_Witness ==
  /\ Scored
  /\ last.source = "DUMMY_CAREER_PATHS"
  /\ DUMMY_CAREER_PATHS # DummyCareerPathsSource

\* C8: when the catalog fetch returns nothing or raises, the request answers
\* 200 with the 15 fallback profiles; when the assessment fetch raises, the
\* request answers 200, unscored.
C8_FallbackAndAnswerErrors ==
  last.route = "recommend_career" =>
    /\ (last.catalog_fetch = "error"
          \/ (last.catalog_fetch = "ok" /\ career_paths = <<>>))
         => /\ last.status = 200
            /\ Len(recommendations) = 15
            /\ { recommendations[i].id : i \in 1..Len(recommendations) }
                 = { DummyCareerPathsSource[i].id : i \in 1..15 }
    /\ last.assessment_fetch = "error"
         => /\ last.status = 200
            /\ last.user_answers = EmptyDict
            /\ Len(recommendations) = Len(PristineCatalog)

\* both reads failed while the Firestore catalog had profiles
C8_Witness ==
  /\ last.route = "recommend_career"
  /\ last.catalog_fetch = "error"
  /\ last.assessment_fetch = "error"
  /\ career_paths # <<>>
  /\ last.status = 200

\* the indices of the assessments of user u, in commit order
AssessmentsOf(u) == { i \in 1..Len(assessments) : assessments[i].user_id = u }

Latest(indices) == CHOOSE i \in indices : \A j \in indices : j <= i

\* C9: a request for user U whose assessment read succeeds is scored with
\* the answers U submitted last, and is unscored when U submitted none.
C9_LatestOwnAssessment ==
  (Served /\ last.assessment_fetch = "ok") =>
    LET mine == AssessmentsOf(last.request.user_id)
    IN  IF mine = {}
          THEN Unscored
          ELSE /\ last.user_answers = assessments[Latest(mine)].answers
               /\ \A i \in 1..Len(recommendations) :
                    LET points == RulePoints(recommendations[i],
                                             assessments[Latest(mine)].answers)
                    IN  recommendations[i].score = IF points = 0 THEN 1 ELSE points

\* the user submitted two different assessments and was scored with the
\* second
C9_Witness ==
  /\ Scored
  /\ Len(assessments) >= 2
  /\ assessments[1].user_id = last.request.user_id
  /\ assessments[2].user_id = last.request.user_id
  /\ assessments[1].answers # assessments[2].answers
  /\ last.user_answers = assessments[2].answers

\* user_id is present and all six answers are present and non-empty
CompleteSubmission(data) ==
  /\ "user_id" \in DOMAIN data /\ data.user_id # ""
  /\ "answers" \in DOMAIN data
  /\ \A q \in {"q1", "q2", "q3", "q4", "q5", "q6"} :
       q \in DOMAIN data.answers /\ data.answers[q] # ""

SixAnswers(a) ==
  \A q \in {"q1", "q2", "q3", "q4", "q5", "q6"} : q \in DOMAIN a /\ a[q] # ""

\* a step of submit_assessment that stores at most the submitted assessment
StoresOnlySubmitted ==
  \/ assessments' = assessments
  \/ /\ Len(assessments') = Len(assessments) + 1
     /\ SubSeq(assessments', 1, Len(assessments)) = assessments
     /\ assessments'[Len(assessments')].user_id = last'.request.user_id
     /\ assessments'[Len(assessments')].answers = last'.request.answers

\* every stored and every scored answer set has all six questions answered
AllSixEverywhere ==
  /\ \A i \in 1..Len(assessments) : SixAnswers(assessments[i].answers)
  /\ Scored => SixAnswers(last.user_answers)

C11_NoSharedEmail ==
  \A i, j \in 1..Len(users) : i # j => users[i].email # users[j].email

====
